---- MODULE Spec2Model ----
(***************************************************************************)
(* Model of the PoeticLandscape component (src/unnamed/part_000): the      *)
(* requestAnimationFrame loop `animate`, the three pools (gold dust, ink   *)
(* trail, ripples), the pointer state and the input handlers.              *)
(*                                                                         *)
(* Numbers.  The program computes in IEEE doubles; the model computes in   *)
(* fixed point with Scale = 1000 units per pixel / per unit of opacity /   *)
(* per unit of life.  The decrements 0.02 and 0.01 cross zero on the same  *)
(* tick in doubles as in exact arithmetic (1.0 - 50*0.02 = -6.2e-16 <= 0,  *)
(* 0.6 - 60*0.01 = -4.2e-16 <= 0), so removal happens on the same tick.    *)
(* Math.sin / Math.cos are computed by Bhaskara's rational approximation   *)
(* on centiradians.  Math.random() is a choice from a small set of samples.*)
(***************************************************************************)
EXTENDS Integers, Sequences, FiniteSets, TLC

\* ---------------------------------------------------------------- bounds
\* input events are delivered only while frameCount < InputFrames
InputFrames == 2
\* the frame loop is followed for at most MaxTicks drawn frames
MaxTicks == 62
\* input events (pointer moves, clicks, window resizes) delivered in a run
MaxEvents == 2
\* the view may start to be torn down only while frameCount < TeardownFrames
TeardownFrames == 2

\* ------------------------------------------------------ program constants
Scale == 1000
DustCount == 40
LifeDecay == 20
SizeShrink == 98
RadiusGrowth == 1500
OpacityDecay == 10
RingThreshold == 20000
RingOffset == 15000
LerpPercent == 5
InitialLife == 1000
InitialOpacity == 600
ThrottlePeriod == 2
\* nominal display refresh interval in milliseconds
FrameMs == 16

PALETTE ==
  [bg |-> "#F4F1E8", stoneBlue |-> "#2B5F75", stoneGreen |-> "#4A8F78",
   gold |-> "#D4AF37"]

\* speed in 1/100, opacity and yOffset in 1/Scale, frequency in 1/10000,
\* amplitude and noise in pixels
LAYERS ==
  << [strokeColor |-> "#6B8C9E", speed |-> 2,  opacity |-> 600,
      yOffset |-> 350, amplitude |-> 80,  frequency |-> 20, noise |-> 10],
     [strokeColor |-> "#1A3B32", speed |-> 5,  opacity |-> 900,
      yOffset |-> 550, amplitude |-> 120, frequency |-> 30, noise |-> 20],
     [strokeColor |-> "#2B4F3F", speed |-> 10, opacity |-> 950,
      yOffset |-> 750, amplitude |-> 100, frequency |-> 40, noise |-> 15],
     [strokeColor |-> "#5C3A28", speed |-> 20, opacity |-> 800,
      yOffset |-> 900, amplitude |-> 60,  frequency |-> 15, noise |-> 5] >>

\* ------------------------------------------------------ environment inputs
\* window.innerWidth x window.innerHeight, in pixels
Viewports == { <<800, 600>>, <<400, 300>> }
\* pointer-move events: clientX, clientY in pixels, and the Math.random()
\* draws handleMouseMove makes: vx in [-0.25,0.25), vy in [0,0.5),
\* size in [2,6), colour
MoveInputs ==
  { [clientX |-> 100, clientY |-> 100,
     vx |-> -250, vy |-> 0, size |-> 2000, color |-> "#223"],
    [clientX |-> 700, clientY |-> 500,
     vx |-> 125, vy |-> 375, size |-> 4000, color |-> "#111"] }
\* click events: clientX, clientY in pixels, and the Math.random() draws
\* handleClick makes: maxRadius in [100,150), colour
ClickInputs ==
  { [clientX |-> 100, clientY |-> 100,
     maxRadius |-> 100000, color |-> "#2B5F75"],
    [clientX |-> 650, clientY |-> 450,
     maxRadius |-> 137500, color |-> "#4A8F78"] }

\* ---------------------------------------------------------------- helpers
\* division rounding toward zero
Trunc(n, d) == IF n >= 0 THEN n \div d ELSE -((-n) \div d)

\* 1000*sin(a), a in centiradians (Bhaskara I; period 628 centiradians)
HalfWave(x) == (16000 * x * (314 - x)) \div (492980 - 4 * x * (314 - x))
Sin1000(a) ==
  LET r == a % 628
  IN IF r <= 314 THEN HalfWave(r) ELSE -HalfWave(r - 314)
Cos1000(a) == Sin1000(a + 157)

VARIABLES
  pc,            \* lifecycle of the component
  canvasRef,     \* canvasRef.current: "null" or "canvas"
  contextOk,     \* whether canvas.getContext('2d') returns a context
  innerW, innerH,    \* window.innerWidth / innerHeight (pixels)
  canvasW, canvasH,  \* canvas.width / canvas.height (pixels)
  resizeListener,    \* resizeCanvas registered on window 'resize'
  requestRef,    \* requestRef.current: 0 (undefined) or a frame handle
  pending,       \* handles of frame callbacks the scheduler still holds
  nextHandle,    \* next handle requestAnimationFrame returns
  now,           \* timestamp (ms) handed to the last frame callback
  frameCount,    \* frameCountRef.current
  mouse,         \* mouseRef.current
  particles,     \* particlesRef.current (ink trail)
  ripples,       \* ripplesRef.current
  goldDust,      \* goldDustRef.current
  surface,       \* draw calls issued on the canvas since it was last cleared
  globalAlpha,   \* ctx.globalAlpha
  hist           \* ghost counters: animate calls, input events, pointer
                 \* moves, ink particles and ripples created
\* Pool entries carry three ghost fields besides the program's: id (the
\* identity of the object), born (frameCount when it was pushed) and, for
\* ink, size0 (the size it was pushed with).

vars == << pc, canvasRef, contextOk, innerW, innerH, canvasW, canvasH,
           resizeListener, requestRef, pending, nextHandle, now, frameCount,
           mouse, particles, ripples, goldDust, surface, globalAlpha, hist >>

poolVars == << particles, ripples, goldDust >>
frameVars == << requestRef, pending, nextHandle >>
windowVars == << innerW, innerH >>
canvasVars == << canvasW, canvasH, surface, globalAlpha >>

Init ==
  /\ pc = "constructed"
  /\ canvasRef = "null"
  /\ contextOk \in BOOLEAN
  /\ \E vp \in Viewports : innerW = vp[1] /\ innerH = vp[2]
  /\ canvasW = 300 /\ canvasH = 150
  /\ resizeListener = FALSE
  /\ requestRef = 0
  /\ pending = {}
  /\ nextHandle = 1
  /\ now = 0
  /\ frameCount = 0
  /\ mouse = [x |-> 0, y |-> 0, targetX |-> 0, targetY |-> 0]
  /\ particles = << >>
  /\ ripples = << >>
  /\ goldDust = << >>
  /\ surface = << >>
  /\ globalAlpha = Scale
  /\ hist = [calls |-> 0, events |-> 0, moves |-> 0, inks |-> 0,
             rips |-> 0]

\* ------------------------------------------------------------------ mount
\* React commits the element: the ref is attached, onMouseMove/onClick wired
Commit ==
  /\ pc = "constructed"
  /\ pc' = "committed"
  /\ canvasRef' = "canvas"
  /\ UNCHANGED << contextOk, windowVars, canvasVars, resizeListener,
                  frameVars, now, frameCount, mouse, poolVars, hist >>

\* position of dust particle i: Math.random() * extent
DustDraw(i, extent) == (((i * 37 + 113) % 160) * extent * Scale) \div 160

NewDust(i) ==
  [x |-> DustDraw(i, innerW), y |-> DustDraw(i + 7, innerH),
   vx |-> ((i * 13) % 200) - 100, vy |-> ((i * 29) % 200) - 100,
   size |-> 500 + ((i * 53) % 2000), life |-> Scale, maxLife |-> Scale,
   color |-> PALETTE.gold]

EffectGoldDust ==
  /\ pc = "committed"
  /\ pc' = "dusted"
  /\ goldDust' = [i \in 1..DustCount |-> NewDust(i)]
  /\ UNCHANGED << canvasRef, contextOk, windowVars, canvasVars,
                  resizeListener, frameVars, now, frameCount, mouse,
                  particles, ripples, hist >>

\* resizeCanvas: assigning canvas.width/height also clears the bitmap and
\* resets the context state
resizeCanvas ==
  IF canvasRef = "canvas"
  THEN /\ canvasW' = innerW'
       /\ canvasH' = innerH'
       /\ surface' = << >>
       /\ globalAlpha' = Scale
  ELSE UNCHANGED canvasVars

EffectResize ==
  /\ pc = "dusted"
  /\ pc' = "listening"
  /\ resizeListener' = TRUE
  /\ UNCHANGED windowVars
  /\ resizeCanvas
  /\ UNCHANGED << canvasRef, contextOk, frameVars, now, frameCount, mouse,
                  poolVars, hist >>

\* a mutant of requestAnimationFrame: the returned handle is not stored
requestAnimationFrameNoStore(callbacks) ==
  /\ requestRef' = requestRef
  /\ pending' = callbacks \cup {nextHandle}
  /\ nextHandle' = nextHandle + 1

\* requestRef.current = requestAnimationFrame(animate), the scheduler
\* holding the callbacks `callbacks` before the call
requestAnimationFrame(callbacks) ==
  /\ requestRef' = nextHandle
  /\ pending' = callbacks \cup {nextHandle}
  /\ nextHandle' = nextHandle + 1

EffectFrameLoop ==
  /\ pc = "listening"
  /\ pc' = "running"
  /\ requestAnimationFrame(pending)
  /\ UNCHANGED << canvasRef, contextOk, windowVars, canvasVars,
                  resizeListener, now, frameCount, mouse, poolVars, hist >>

\* ------------------------------------------------------- input handlers
\* the bounded environment still delivers input
InputOpen == frameCount < InputFrames

\* the canvas element is in the document and receives pointer events
ElementLive == pc \in {"committed", "running"}

NewInk(clientX, clientY, rnd) ==
  [id |-> hist.inks + 1, born |-> frameCount, size0 |-> rnd.size,
   x |-> clientX * Scale, y |-> clientY * Scale,
   vx |-> rnd.vx, vy |-> rnd.vy, size |-> rnd.size,
   life |-> InitialLife, maxLife |-> InitialLife, color |-> rnd.color]

\* a mutant of MoveTarget: the smoothed position jumps onto the target
MoveTargetSnap(m, clientX, clientY) ==
  [m EXCEPT !.targetX = clientX * Scale - ((innerW * Scale) \div 2),
            !.targetY = clientY * Scale - ((innerH * Scale) \div 2),
            !.x = clientX * Scale - ((innerW * Scale) \div 2),
            !.y = clientY * Scale - ((innerH * Scale) \div 2)]

\* the pointer target, relative to the centre of the window
MoveTarget(m, clientX, clientY) ==
  [m EXCEPT !.targetX = clientX * Scale - ((innerW * Scale) \div 2),
            !.targetY = clientY * Scale - ((innerH * Scale) \div 2)]

\* a mutant of ShouldSpawn: no throttle
ShouldSpawnAlways(fc) == TRUE

\* the brush trail throttle: frameCountRef.current % 2 === 0
ShouldSpawn(fc) == fc % ThrottlePeriod = 0

handleMouseMove(clientX, clientY, rnd) ==
  /\ mouse' = MoveTarget(mouse, clientX, clientY)
  /\ IF ShouldSpawn(frameCount)
     THEN /\ particles' = Append(particles, NewInk(clientX, clientY, rnd))
          /\ hist' = [hist EXCEPT !.events = @ + 1, !.moves = @ + 1,
                                  !.inks = @ + 1]
     ELSE /\ particles' = particles
          /\ hist' = [hist EXCEPT !.events = @ + 1, !.moves = @ + 1]
  /\ UNCHANGED << pc, canvasRef, contextOk, windowVars, canvasVars,
                  resizeListener, frameVars, now, frameCount, ripples,
                  goldDust >>

MouseMove ==
  /\ ElementLive /\ InputOpen /\ hist.events < MaxEvents
  /\ \E e \in MoveInputs : handleMouseMove(e.clientX, e.clientY, e)

NewRipple(clientX, clientY, rnd) ==
  [id |-> hist.rips + 1, born |-> frameCount,
   x |-> clientX * Scale, y |-> clientY * Scale,
   radius |-> 0, maxRadius |-> rnd.maxRadius, opacity |-> InitialOpacity,
   color |-> rnd.color]

handleClick(clientX, clientY, rnd) ==
  /\ ripples' = Append(ripples, NewRipple(clientX, clientY, rnd))
  /\ hist' = [hist EXCEPT !.events = @ + 1, !.rips = @ + 1]
  /\ UNCHANGED << pc, canvasRef, contextOk, windowVars, canvasVars,
                  resizeListener, frameVars, now, frameCount, mouse,
                  particles, goldDust >>

Click ==
  /\ ElementLive /\ InputOpen /\ hist.events < MaxEvents
  /\ \E e \in ClickInputs : handleClick(e.clientX, e.clientY, e)

\* the window is resized; the 'resize' listener, if registered, runs
WindowResize ==
  /\ pc \in {"committed", "running", "detached"}
  /\ InputOpen /\ hist.events < MaxEvents
  /\ \E vp \in Viewports :
       /\ vp # <<innerW, innerH>>
       /\ innerW' = vp[1]
       /\ innerH' = vp[2]
  /\ IF resizeListener THEN resizeCanvas ELSE UNCHANGED canvasVars
  /\ hist' = [hist EXCEPT !.events = @ + 1]
  /\ UNCHANGED << pc, canvasRef, contextOk, resizeListener, frameVars, now,
                  frameCount, mouse, poolVars >>

\* the environment stops handing out a 2D context: from now on
\* canvas.getContext('2d') returns null
ContextLost ==
  /\ pc \in {"committed", "running"}
  /\ InputOpen
  /\ contextOk
  /\ contextOk' = FALSE
  /\ UNCHANGED << pc, canvasRef, windowVars, canvasVars, resizeListener,
                  frameVars, now, frameCount, mouse, poolVars, hist >>

\* ------------------------------------------------------------ frame tick
\* one draw call; t is the time sample of the frame, px the parallax input
DrawOp(kind, id, x, y, r, alpha, t, px) ==
  [kind |-> kind, id |-> id, x |-> x, y |-> y, r |-> r, alpha |-> alpha,
   t |-> t, px |-> px]

\* a mutant of LerpMouse: the smoothed position is set to the target
LerpMouseSnap(m) == [m EXCEPT !.x = m.targetX, !.y = m.targetY]

\* mouseRef.current.x += (targetX - x) * 0.05, same for y
LerpMouse(m) ==
  [m EXCEPT !.x = m.x + Trunc((m.targetX - m.x) * LerpPercent, 100),
            !.y = m.y + Trunc((m.targetY - m.y) * LerpPercent, 100)]

\* clearRect, then drawRicePaperTexture: the paper fill and 400 grain dots
BackgroundOps(W, H, alpha, t) ==
  << DrawOp("clear", 0, 0, 0, 0, alpha, t, 0),
     DrawOp("paper", 0, 0, 0, 0, alpha, t, 0),
     DrawOp("grain", 400, 0, 0, 0, alpha, t, 0) >>

\* drawMountain: fill at the layer's opacity, stroke at opacity 1.0
MountainOps(i, t, parallaxX) ==
  << DrawOp("layerFill", i, 0, 0, 0, LAYERS[i].opacity, t, parallaxX),
     DrawOp("layerStroke", i, 0, 0, 0, Scale, t, parallaxX) >>

RECURSIVE LayerOps(_, _, _)
LayerOps(i, t, parallaxX) ==
  IF i > Len(LAYERS) THEN << >>
  ELSE MountainOps(i, t, parallaxX) \o LayerOps(i + 1, t, parallaxX)

\* a mutant of Wrap: the coordinate is clamped to the far edge
WrapClamp(v, extent) ==
  LET v1 == IF v > extent THEN extent ELSE v
  IN IF v1 < 0 THEN extent ELSE v1

\* a mutant of Wrap: only the far edge wraps
WrapUpperOnly(v, extent) == IF v > extent THEN 0 ELSE v

\* where an ambient coordinate ends up after the two wrap-around tests:
\* if (v > extent) v = 0; if (v < 0) v = extent
Wrap(v, extent) ==
  LET v1 == IF v > extent THEN 0 ELSE v
  IN IF v1 < 0 THEN extent ELSE v1

\* float movement of one gold dust particle: p.x += sin(t + p.y*0.01)*0.5,
\* then p.y += cos(t + p.x*0.01)*0.2 with the new p.x
DustDrift(p, t) ==
  LET tcs == t \div 10
      x1 == p.x + Trunc(Sin1000(tcs + (p.y \div Scale)) * 5, 10)
      y1 == p.y + Trunc(Cos1000(tcs + (x1 \div Scale)) * 2, 10)
  IN [p EXCEPT !.x = x1, !.y = y1]

\* float movement and wrap-around of one gold dust particle
DustStep(p, t, W, H) ==
  LET d == DustDrift(p, t)
  IN [d EXCEPT !.x = Wrap(d.x, W * Scale), !.y = Wrap(d.y, H * Scale)]

\* twinkle: globalAlpha = 0.5 + sin(t * 5 + p.x) * 0.3
Twinkle(p, t) ==
  (Scale \div 2) + Trunc(Sin1000(5 * (t \div 10) + (p.x \div 10)) * 3, 10)

\* a mutant of DustUpdate: a particle that leaves the viewport is removed
DustUpdateCull(dust, t, W, H) ==
  LET moved == [i \in DOMAIN dust |-> DustDrift(dust[i], t)]
      Inside(p) ==
        p.x >= 0 /\ p.x <= W * Scale /\ p.y >= 0 /\ p.y <= H * Scale
  IN SelectSeq(moved, Inside)

\* goldDustRef.current.forEach: every particle moves, none is added or removed
DustUpdate(dust, t, W, H) ==
  [i \in DOMAIN dust |-> DustStep(dust[i], t, W, H)]

DustOps(dust, t) ==
  [i \in DOMAIN dust |->
      DrawOp("dust", i, dust[i].x, dust[i].y, dust[i].size,
             Twinkle(dust[i], t), t, 0)]

\* Array.prototype.splice(i, 1)
Splice(s, i) == SubSeq(s, 1, i - 1) \o SubSeq(s, i + 1, Len(s))

\* a mutant of RippleStep: the radius grows by 1.0 instead of 1.5
RippleStepSlow(r) ==
  [r EXCEPT !.radius = @ + Scale, !.opacity = @ - OpacityDecay]

RippleStep(r) ==
  [r EXCEPT !.radius = @ + RadiusGrowth, !.opacity = @ - OpacityDecay]

\* a mutant of RippleOps: the inner ring is drawn from radius 10 on
RippleOpsEarly(r, t) ==
  LET outer == DrawOp("ripple", r.id, r.x, r.y, r.radius, r.opacity, t, 0)
      inner == DrawOp("ring", r.id, r.x, r.y, r.radius - RingOffset,
                      r.opacity \div 2, t, 0)
  IN IF r.radius > 10000 THEN << outer, inner >> ELSE << outer >>

RippleOps(r, t) ==
  LET outer == DrawOp("ripple", r.id, r.x, r.y, r.radius, r.opacity, t, 0)
      inner == DrawOp("ring", r.id, r.x, r.y, r.radius - RingOffset,
                      r.opacity \div 2, t, 0)
  IN IF r.radius > RingThreshold THEN << outer, inner >> ELSE << outer >>

\* a mutant of RippleDead: a ripple is removed only once its opacity is
\* negative
RippleDeadLate(r) == r.opacity < 0

\* the removal test of the ripple loop: r.opacity <= 0
RippleDead(r) == r.opacity <= 0

\* a mutant of RippleLoop: after a removal the next entry is stepped over
RECURSIVE RippleLoopSkip(_, _, _, _)
RippleLoopSkip(i, pool, ops, t) ==
  IF i < 1 THEN [pool |-> pool, ops |-> ops]
  ELSE LET r == RippleStep(pool[i])
       IN IF RippleDead(r)
          THEN RippleLoopSkip(i - 2, Splice(pool, i), ops, t)
          ELSE RippleLoopSkip(i - 1, [pool EXCEPT ![i] = r],
                              ops \o RippleOps(r, t), t)

\* for (i = length - 1; i >= 0; i--) over ripplesRef.current
RECURSIVE RippleLoop(_, _, _, _)
RippleLoop(i, pool, ops, t) ==
  IF i < 1 THEN [pool |-> pool, ops |-> ops]
  ELSE LET r == RippleStep(pool[i])
       IN IF RippleDead(r)
          THEN RippleLoop(i - 1, Splice(pool, i), ops, t)
          ELSE RippleLoop(i - 1, [pool EXCEPT ![i] = r],
                          ops \o RippleOps(r, t), t)

\* a mutant of InkStep: the life decrement is 0.03 and the shrink 0.97
InkStepFast(p) ==
  [p EXCEPT !.life = @ - 30, !.size = (@ * 97) \div 100]

\* a mutant of InkStep: the size grows instead of shrinking
InkStepGrow(p) ==
  [p EXCEPT !.life = @ - LifeDecay, !.size = (@ * 102) \div 100]

InkStep(p) ==
  [p EXCEPT !.life = @ - LifeDecay, !.size = (@ * SizeShrink) \div 100]

InkOp(p, t) ==
  DrawOp("ink", p.id, p.x, p.y, p.size, (p.life * 6) \div 10, t, 0)

\* a mutant of InkDead: a particle is removed only once its life is negative
InkDeadLate(p) == p.life < 0

\* the removal test of the brush trail loop: p.life <= 0
InkDead(p) == p.life <= 0

\* for (i = length - 1; i >= 0; i--) over particlesRef.current
RECURSIVE InkLoop(_, _, _, _)
InkLoop(i, pool, ops, t) ==
  IF i < 1 THEN [pool |-> pool, ops |-> ops]
  ELSE LET p == InkStep(pool[i])
       IN IF InkDead(p)
          THEN InkLoop(i - 1, Splice(pool, i), ops, t)
          ELSE InkLoop(i - 1, [pool EXCEPT ![i] = p],
                       Append(ops, InkOp(p, t)), t)

\* a mutant of FrameOps: the brush trail is drawn before the ripples
FrameOpsInkFirst(W, H, alpha, t, parallaxX, dust, rippleOps, inkOps) ==
  BackgroundOps(W, H, alpha, t) \o LayerOps(1, t, parallaxX)
    \o DustOps(dust, t) \o inkOps \o rippleOps

\* the draw calls of one frame, in the order animate issues them
FrameOps(W, H, alpha, t, parallaxX, dust, rippleOps, inkOps) ==
  BackgroundOps(W, H, alpha, t) \o LayerOps(1, t, parallaxX)
    \o DustOps(dust, t) \o rippleOps \o inkOps

\* a mutant of FinalAlpha: the opacity of the last draw call is left set
FinalAlphaLeak(ops) == ops[Len(ops)].alpha

\* Reset Global Alpha: ctx.globalAlpha = 1.0 after the draw calls `ops`
FinalAlpha(ops) == Scale

\* animate(time), run by the scheduler for the callback with handle h
animate(h, time) ==
  /\ now' = time
  /\ IF canvasRef = "null" \/ ~contextOk
     THEN /\ pending' = pending \ {h}
          /\ hist' = [hist EXCEPT !.calls = @ + 1]
          /\ UNCHANGED << requestRef, nextHandle, frameCount, mouse,
                          poolVars, canvasVars >>
     ELSE LET rip == RippleLoop(Len(ripples), ripples, << >>, time)
              ink == InkLoop(Len(particles), particles, << >>, time)
          IN /\ frameCount' = frameCount + 1
             /\ mouse' = LerpMouse(mouse)
             /\ goldDust' = DustUpdate(goldDust, time, canvasW, canvasH)
             /\ ripples' = rip.pool
             /\ particles' = ink.pool
             /\ surface' = FrameOps(canvasW, canvasH, globalAlpha, time,
                                    mouse'.x, goldDust', rip.ops, ink.ops)
             /\ globalAlpha' = FinalAlpha(surface')
             /\ hist' = [hist EXCEPT !.calls = @ + 1]
             /\ requestAnimationFrame(pending \ {h})
             /\ UNCHANGED << canvasW, canvasH >>
  /\ UNCHANGED << pc, canvasRef, contextOk, windowVars, resizeListener >>

\* the timestamp steps of the scheduler: a steady display refresh
FrameDeltas == {FrameMs}

Tick ==
  /\ frameCount < MaxTicks
  /\ \E h \in pending, dt \in FrameDeltas : animate(h, now + dt)

\* --------------------------------------------------------------- unmount
\* React removes the element: the ref is cleared, no more pointer events
Detach ==
  /\ pc = "running"
  /\ frameCount < TeardownFrames
  /\ pc' = "detached"
  /\ canvasRef' = "null"
  /\ UNCHANGED << contextOk, windowVars, canvasVars, resizeListener,
                  frameVars, now, frameCount, mouse, poolVars, hist >>

\* a mutant of cancelFrame: the handle of the previous request is cancelled
cancelFrameStale(callbacks, ref) ==
  IF ref # 0 THEN callbacks \ {ref - 1} ELSE callbacks

\* cleanup of the frame loop effect:
\* if (requestRef.current) cancelAnimationFrame(requestRef.current)
cancelFrame(callbacks, ref) ==
  IF ref # 0 THEN callbacks \ {ref} ELSE callbacks

\* the effect cleanups, run in one flush: removeEventListener, then
\* cancelAnimationFrame(requestRef.current)
CleanupEffects ==
  /\ pc = "detached"
  /\ pc' = "torn"
  /\ resizeListener' = FALSE
  /\ pending' = cancelFrame(pending, requestRef)
  /\ UNCHANGED << canvasRef, contextOk, windowVars, canvasVars, requestRef,
                  nextHandle, now, frameCount, mouse, poolVars, hist >>

Next ==
  \/ Commit
  \/ EffectGoldDust
  \/ EffectResize
  \/ EffectFrameLoop
  \/ MouseMove
  \/ Click
  \/ WindowResize
  \/ ContextLost
  \/ Tick
  \/ Detach
  \/ CleanupEffects

Spec == Init /\ [][Next]_vars

\* ================================================= drawMountain, in detail
\* The paths of one drawMountain call: the closed fill path and the open
\* stroke path, each built by its own loop of the source.

\* canvas.width and canvas.height handed to drawMountain, in pixels
PathWidths == {0, 4, 5, 12, 400}
PathHeights == {300, 600}
\* the frame timestamp, in milliseconds
PathTimes == {0, 16, 1000, 5000}
\* mouseRef.current.x handed in as parallaxX, in 1/Scale pixels
PathParallax == {0, 12500, -20000}

\* currentParallax = parallaxX * speed, in 1/Scale pixels
CurrentParallax(layer, parallaxX) == Trunc(parallaxX * layer.speed, 100)

\* baseY = height * yOffset + sin(time * 0.5) * 5, in 1/Scale pixels
BaseY(layer, height, time) ==
  height * layer.yOffset + Sin1000(Trunc(time, 20)) * 5

\* the wave terms of one sample, from angles in centiradians
WaveY(layer, a1, a2, a3) ==
  Sin1000(a1) * layer.amplitude
  + Trunc(Sin1000(a2) * layer.amplitude * 3, 10)
  + Cos1000(a3) * layer.noise

\* the y of the fill loop at x: baseY - (y1 + y2 + y3)
FillY(layer, x, height, time, parallaxX) ==
  LET cp == CurrentParallax(layer, parallaxX)
      a1 == Trunc((x * Scale + cp) * layer.frequency, 100000)
            + Trunc(time, 100)
      a2 == Trunc((x * Scale + cp) * layer.frequency, 40000)
            + Trunc(time, 50)
      a3 == Trunc((x * Scale - cp) * layer.frequency, 20000)
  IN BaseY(layer, height, time) - WaveY(layer, a1, a2, a3)

\* a mutant of StrokeY: the roughness term moves with the parallax
StrokeYDrift(layer, x, height, time, parallaxX) ==
  LET cp == CurrentParallax(layer, parallaxX)
      a1 == Trunc((x * Scale + cp) * layer.frequency, 100000)
            + Trunc(time, 100)
      a2 == Trunc((x * Scale + cp) * layer.frequency, 40000)
            + Trunc(time, 50)
      a3 == Trunc((x * Scale + cp) * layer.frequency, 20000)
  IN BaseY(layer, height, time) - WaveY(layer, a1, a2, a3)

\* the y of the stroke loop at x: baseY - (y1 + y2 + y3)
StrokeY(layer, x, height, time, parallaxX) ==
  LET cp == CurrentParallax(layer, parallaxX)
      a1 == Trunc((x * Scale + cp) * layer.frequency, 100000)
            + Trunc(time, 100)
      a2 == Trunc((x * Scale + cp) * layer.frequency, 40000)
            + Trunc(time, 50)
      a3 == Trunc((x * Scale - cp) * layer.frequency, 20000)
  IN BaseY(layer, height, time) - WaveY(layer, a1, a2, a3)

\* one path command of the 2D context
PathCmd(kind, i, x, y) == [kind |-> kind, id |-> i, x |-> x, y |-> y]

\* for (let x = 0; x <= width; x += 5) ctx.lineTo(x, ...)
RECURSIVE FillLoop(_, _, _, _, _, _)
FillLoop(i, x, width, height, time, parallaxX) ==
  IF x > width THEN << >>
  ELSE << PathCmd("fillLine", i, x * Scale,
                  FillY(LAYERS[i], x, height, time, parallaxX)) >>
       \o FillLoop(i, x + 5, width, height, time, parallaxX)

\* for (let x = 0; x <= width; x += 5)
\*   if (x === 0) ctx.moveTo(x, ...) else ctx.lineTo(x, ...)
RECURSIVE StrokeLoop(_, _, _, _, _, _)
StrokeLoop(i, x, width, height, time, parallaxX) ==
  IF x > width THEN << >>
  ELSE << PathCmd(IF x = 0 THEN "strokeMove" ELSE "strokeLine", i,
                  x * Scale,
                  StrokeY(LAYERS[i], x, height, time, parallaxX)) >>
       \o StrokeLoop(i, x + 5, width, height, time, parallaxX)

\* moveTo(0, height), the wave, lineTo(width, height), closePath
FillPath(i, width, height, time, parallaxX) ==
  << PathCmd("fillMove", i, 0, height * Scale) >>
  \o FillLoop(i, 0, width, height, time, parallaxX)
  \o << PathCmd("fillLine", i, width * Scale, height * Scale),
        PathCmd("fillClose", i, 0, 0) >>

\* beginPath, then the re-traced top line
StrokePath(i, width, height, time, parallaxX) ==
  StrokeLoop(i, 0, width, height, time, parallaxX)

\* a canvas of some size, at some frame time, with some smoothed pointer
PathInit ==
  /\ pc = "running"
  /\ canvasRef = "canvas"
  /\ contextOk = TRUE
  /\ \E vp \in Viewports : innerW = vp[1] /\ innerH = vp[2]
  /\ canvasW \in PathWidths
  /\ canvasH \in PathHeights
  /\ resizeListener = TRUE
  /\ requestRef = 1
  /\ pending = {1}
  /\ nextHandle = 2
  /\ now \in PathTimes
  /\ frameCount = 0
  /\ \E px \in PathParallax :
        mouse = [x |-> px, y |-> 0, targetX |-> px, targetY |-> 0]
  /\ particles = << >>
  /\ ripples = << >>
  /\ goldDust = << >>
  /\ surface = << >>
  /\ globalAlpha = Scale
  /\ hist = [calls |-> 0, events |-> 0, moves |-> 0, inks |-> 0,
             rips |-> 0]

\* drawMountain(ctx, width, height, LAYERS[i], t, mouseRef.current.x): the
\* fill path is filled at the layer's opacity, the stroke path stroked at 1.0
drawMountain(i) ==
  /\ surface' = FillPath(i, canvasW, canvasH, now, mouse.x)
                \o StrokePath(i, canvasW, canvasH, now, mouse.x)
  /\ frameCount' = i
  /\ globalAlpha' = Scale
  /\ UNCHANGED << pc, canvasRef, contextOk, windowVars, canvasW, canvasH,
                  resizeListener, frameVars, now, mouse, poolVars, hist >>

PathNext == \E i \in DOMAIN LAYERS : drawMountain(i)

PathSpec == PathInit /\ [][PathNext]_vars

\* ================================================================ claims
\* steps of the model, recognised by what they change
DrawnTick == frameCount' = frameCount + 1
SkippedTick == hist'.calls = hist.calls + 1 /\ frameCount' = frameCount
InputStep == hist'.events = hist.events + 1
MoveStep == hist'.moves = hist.moves + 1

InkIds(pool) == { pool[i].id : i \in DOMAIN pool }
DrawnIds(ops, kinds) == { ops[i].id : i \in { k \in DOMAIN ops : ops[k].kind \in kinds } }

\* C1: while the view is mounted and not torn down, a tick that finds no
\* drawing surface (canvas ref null or no 2D context) is followed by another
\* scheduled tick: a frame request is pending after it.
C1_SkippedTickRetries ==
  [][(pc = "running" /\ SkippedTick) => pending' # {}]_vars

\* C2: once the cleanup of the frame loop effect has returned, no frame
\* callback is pending, animate is not called and no frame is requested any
\* more; running the cancellation again changes nothing.
C2_StoppedAfterTeardown ==
  /\ [](pc = "torn" =>
          /\ pending = {}
          /\ cancelFrame(pending, requestRef) = pending)
  /\ [][pc = "torn" =>
          /\ hist'.calls = hist.calls
          /\ nextHandle' = nextHandle
          /\ pending' = pending]_vars

\* C2 witness: the view was torn down while the request of a drawn frame was
\* still pending
C2_Witness ==
  /\ pc = "torn"
  /\ frameCount >= 1
  /\ hist.calls = frameCount
  /\ requestRef = nextHandle - 1

\* C3 as stated: over the pointer-move events delivered so far (n of them),
\* at most ceil(n/2) ink particles were added, whatever ticks ran in between.
C3_EveryOtherMove == hist.inks <= (hist.moves + 1) \div 2

\* C3 amended: a pointer-move event adds exactly one ink particle when the
\* frame counter is even at the time of the event, and none when it is odd.
C3_ThrottleByFrameParity ==
  [][MoveStep =>
       IF frameCount % 2 = 0
       THEN /\ Len(particles') = Len(particles) + 1
            /\ SubSeq(particles', 1, Len(particles)) = particles
            /\ hist'.inks = hist.inks + 1
       ELSE /\ particles' = particles
            /\ hist'.inks = hist.inks]_vars

\* C3 witness: a move in an even frame spawned, a later move in an odd
\* frame did not
C3_Witness ==
  /\ hist.moves = 2
  /\ hist.inks = 1
  /\ frameCount % 2 = 1
  /\ Len(particles) = 1
  /\ mouse.targetX # particles[1].x - ((innerW * Scale) \div 2)

\* C4: in every tick, each ink particle that survives the tick has its
\* position advanced by its velocity: x' = x + vx and y' = y + vy.
C4_InkAdvancesByVelocity ==
  [][DrawnTick =>
       \A i \in DOMAIN particles', j \in DOMAIN particles :
          particles'[i].id = particles[j].id =>
            /\ particles'[i].x = particles[j].x + particles[j].vx
            /\ particles'[i].y = particles[j].y + particles[j].vy]_vars

\* C5: every particle of the ink pool has 0 < life <= 1; a particle whose
\* life is <= 0 after the decrement of a tick is removed in that tick and is
\* neither drawn in it nor later (what is drawn is in the pool); a particle
\* that survives a tick is drawn in it, its life is 0.02 less and its size
\* has not increased.
C5_InkDecayAndRemoval ==
  [][/\ \A i \in DOMAIN particles' :
           particles'[i].life > 0 /\ particles'[i].life <= Scale
     /\ DrawnIds(surface', {"ink"}) \subseteq InkIds(particles')
     /\ DrawnTick =>
          \A j \in DOMAIN particles :
             IF particles[j].life - LifeDecay <= 0
             THEN /\ particles[j].id \notin InkIds(particles')
                  /\ particles[j].id \notin DrawnIds(surface', {"ink"})
             ELSE /\ particles[j].id \in DrawnIds(surface', {"ink"})
                  /\ \E i \in DOMAIN particles' :
                        /\ particles'[i].id = particles[j].id
                        /\ particles'[i].life = particles[j].life - LifeDecay
                        /\ particles'[i].size <= particles[j].size]_vars

\* C5 witness: two particles that had shrunk for 49 ticks were removed by
\* the 50th and not drawn by it
C5_Witness ==
  /\ hist.inks = 2
  /\ particles = << >>
  /\ frameCount = 50
  /\ surface # << >>
  /\ DrawnIds(surface, {"ink"}) = {}

\* C6: in every tick each ripple loses exactly 0.01 of opacity and gains
\* exactly 1.5 of radius; a ripple whose opacity is then <= 0 is removed in
\* that tick and is neither drawn in it nor later (what is drawn is in the
\* pool); every other ripple stays and is drawn, and every ripple draw has
\* opacity > 0.
C6_RippleTermination ==
  [][/\ DrawnIds(surface', {"ripple", "ring"}) \subseteq InkIds(ripples')
     /\ \A k \in DOMAIN surface' :
           surface'[k].kind \in {"ripple", "ring"} => surface'[k].alpha > 0
     /\ DrawnTick =>
          \A j \in DOMAIN ripples :
             IF ripples[j].opacity - OpacityDecay <= 0
             THEN /\ ripples[j].id \notin InkIds(ripples')
                  /\ ripples[j].id \notin DrawnIds(surface', {"ripple", "ring"})
             ELSE /\ ripples[j].id \in DrawnIds(surface', {"ripple"})
                  /\ \E i \in DOMAIN ripples' :
                        /\ ripples'[i].id = ripples[j].id
                        /\ ripples'[i].opacity = ripples[j].opacity - OpacityDecay
                        /\ ripples'[i].radius = ripples[j].radius + RadiusGrowth
                        /\ ripples'[i].radius > ripples[j].radius]_vars

\* C6 witness: of two ripples of different age, the older one has been
\* removed and the younger one is drawn on its last tick
C6_Witness ==
  /\ hist.rips = 2
  /\ Len(ripples) = 1
  /\ ripples[1].id = 2
  /\ ripples[1].opacity = OpacityDecay
  /\ DrawnIds(surface, {"ripple", "ring"}) = {2}

\* C7: once initialised, the gold dust pool holds exactly 40 particles,
\* after any sequence of ticks, pointer moves, clicks and resizes.
C7_AmbientPopulation ==
  pc \notin {"constructed", "committed"} => Len(goldDust) = DustCount

\* C7 witness: frames were drawn after a shrinking resize and other input
C7_Witness ==
  /\ Len(goldDust) = DustCount
  /\ frameCount >= 3
  /\ hist.events = 2
  /\ hist.moves + hist.rips = 1
  /\ canvasW = 400
  /\ goldDust[1].x < 1000

\* C8: in a tick, an ambient particle whose x after the drift exceeds the
\* width read in that tick gets x = 0, one whose x is below 0 gets x = width,
\* the same for y and the height; no particle leaves the pool.
C8_AmbientWrap ==
  [][DrawnTick =>
       /\ Len(goldDust') = Len(goldDust)
       /\ \A i \in DOMAIN goldDust :
            LET d == DustDrift(goldDust[i], now')
            IN /\ d.x > canvasW * Scale => goldDust'[i].x = 0
               /\ d.x < 0 => goldDust'[i].x = canvasW * Scale
               /\ d.y > canvasH * Scale => goldDust'[i].y = 0
               /\ d.y < 0 => goldDust'[i].y = canvasH * Scale]_vars

\* C8 witness: the window shrank from 800x600 to 400x300 after the first
\* frame, and the next tick took the particle that started at x = 750 to 0
C8_Witness ==
  /\ canvasW = 400
  /\ frameCount >= 2
  /\ goldDust[1].x = 0
  /\ goldDust[1].size = NewDust(1).size

\* C9 as stated: an input handler (pointer move, click, resize) changes only
\* the ink pool, the ripple pool and the pointer target: the drawing surface,
\* the smoothed pointer, the frame counter, the ambient pool and the pending
\* frame request stay as they are.
C9_HandlersTouchOnlyPools ==
  [][InputStep =>
       /\ UNCHANGED << canvasW, canvasH, surface, globalAlpha >>
       /\ mouse'.x = mouse.x /\ mouse'.y = mouse.y
       /\ UNCHANGED << frameCount, goldDust, requestRef, pending,
                       nextHandle >>]_vars

\* C9 amended: the pointer-move and click handlers change only the ink pool,
\* the ripple pool and the pointer target; the resize handler changes only
\* the size of the drawing surface, which clears it and resets its state;
\* no handler issues a draw call, and all of them leave the smoothed pointer,
\* the frame counter, the ambient pool and the pending frame request as
\* they are.
C9_HandlersNeverDraw ==
  [][InputStep =>
       /\ mouse'.x = mouse.x /\ mouse'.y = mouse.y
       /\ UNCHANGED << frameCount, goldDust, requestRef, pending,
                       nextHandle >>
       /\ surface' = surface \/ surface' = << >>
       /\ IF innerW' = innerW /\ innerH' = innerH
          THEN UNCHANGED << canvasW, canvasH, surface, globalAlpha >>
          ELSE /\ UNCHANGED << particles, ripples, mouse >>
               /\ IF resizeListener /\ canvasRef = "canvas"
                  THEN /\ canvasW' = innerW' /\ canvasH' = innerH'
                       /\ surface' = << >>
                  ELSE UNCHANGED << canvasW, canvasH, surface,
                                    globalAlpha >>]_vars

\* C9 witness: after a frame was drawn, a move (throttled: no particle) and
\* a click were handled; the frame is still on the surface
C9_Witness ==
  /\ pc = "running"
  /\ frameCount = 1
  /\ hist.events = 2
  /\ hist.moves = 1
  /\ Len(particles) = 0
  /\ Len(ripples) = 1
  /\ ripples[1].radius = 0
  /\ surface # << >>
  /\ mouse.targetX # 0
  /\ mouse.x = 0

\* rank of a draw call in the frame
Stage(kind) ==
  CASE kind \in {"clear"} -> 1
    [] kind \in {"paper", "grain"} -> 2
    [] kind \in {"layerFill", "layerStroke"} -> 3
    [] kind \in {"dust"} -> 4
    [] kind \in {"ripple", "ring"} -> 5
    [] kind \in {"ink"} -> 6

\* C10: the draw calls of a frame come in the fixed order clear, background,
\* the terrain layers in declared order (each with the time sample of the
\* frame and the smoothed pointer x the frame computed), the ambient pool,
\* the ripple pool, the ink pool; the frame counter was advanced.
C10_FrameOrder ==
  surface # << >> =>
    /\ frameCount >= 1
    /\ Len(surface) >= 3 + 2 * Len(LAYERS) + DustCount
    /\ surface[1].kind = "clear"
    /\ surface[2].kind = "paper"
    /\ surface[3].kind = "grain"
    /\ \A i \in DOMAIN LAYERS :
          /\ surface[2 + 2 * i].kind = "layerFill"
          /\ surface[3 + 2 * i].kind = "layerStroke"
          /\ surface[2 + 2 * i].id = i
          /\ surface[3 + 2 * i].id = i
          /\ surface[2 + 2 * i].t = surface[1].t
          /\ surface[3 + 2 * i].t = surface[1].t
          /\ surface[2 + 2 * i].px = mouse.x
          /\ surface[3 + 2 * i].px = mouse.x
    /\ \A i \in 1..DustCount :
          /\ surface[3 + 2 * Len(LAYERS) + i].kind = "dust"
          /\ surface[3 + 2 * Len(LAYERS) + i].id = i
    /\ \A k \in 1..(Len(surface) - 1) :
          Stage(surface[k].kind) <= Stage(surface[k + 1].kind)

\* C10 witness: a frame with draws of every pool, inner ring included, while
\* the smoothed pointer is on its way to the target
C10_Witness ==
  /\ DrawnIds(surface, {"ink"}) # {}
  /\ DrawnIds(surface, {"ring"}) # {}
  /\ DrawnIds(surface, {"dust"}) # {}
  /\ mouse.x # 0
  /\ mouse.x # mouse.targetX

\* the draw calls of `kinds` in the log `ops`
Calls(ops, kinds) == { ops[k] : k \in { j \in DOMAIN ops : ops[j].kind \in kinds } }
ClickStep == hist'.rips = hist.rips + 1

\* C11: a layer's opacity is in effect only for that layer's fill: every
\* layer stroke and every background paint (clear, paper fill, grain dots)
\* is issued with global opacity 1.0, and the global opacity is 1.0 whenever
\* no tick is running, whatever ambient, ripple or ink draws came before.
C11_OpacityDiscipline ==
  /\ globalAlpha = Scale
  /\ \A c \in Calls(surface, {"clear", "paper", "grain", "layerStroke"}) :
        c.alpha = Scale
  /\ \A c \in Calls(surface, {"layerFill"}) : c.alpha = LAYERS[c.id].opacity

\* C11 witness: a frame drawn after a frame that ended with translucent
\* ripple and ink draws
C11_Witness ==
  /\ frameCount >= 2
  /\ Calls(surface, {"layerFill"}) # {}
  /\ \E c \in Calls(surface, {"ink"}) : c.alpha < Scale \div 2
  /\ \E c \in Calls(surface, {"ripple"}) : c.alpha < Scale

\* C12: a click adds exactly one ripple, of radius 0, at the click position,
\* whatever the frame counter; a ripple's inner ring is drawn in a tick
\* exactly when the ripple is drawn in it with radius > 20, which is from its
\* 14th tick on (radius 21, ring radius 6); no ring has a negative radius.
C12_ClickAndInnerRing ==
  [][/\ ClickStep =>
          /\ Len(ripples') = Len(ripples) + 1
          /\ SubSeq(ripples', 1, Len(ripples)) = ripples
          /\ ripples'[Len(ripples')].radius = 0
          /\ \E e \in ClickInputs :
                /\ ripples'[Len(ripples')].x = e.clientX * Scale
                /\ ripples'[Len(ripples')].y = e.clientY * Scale
     /\ \A c \in Calls(surface', {"ring"}) :
          /\ c.r >= 0
          /\ \E o \in Calls(surface', {"ripple"}) :
                o.id = c.id /\ o.r > 20000 /\ c.r = o.r - 15000
     /\ \A i \in DOMAIN ripples' :
          LET r == ripples'[i]
              age == frameCount' - r.born
              rings == { c \in Calls(surface', {"ring"}) : c.id = r.id }
          IN r.id \in DrawnIds(surface', {"ripple"}) =>
               /\ (rings # {}) = (r.radius > 20000)
               /\ (rings # {}) = (age >= 14)
               /\ age = 14 => \A c \in rings : c.r = 6000]_vars

\* C12 witness: a ripple clicked in an odd frame is on its 14th tick, with
\* radius 21 and its first inner ring at radius 6
C12_Witness ==
  \E i \in DOMAIN ripples :
     /\ ripples[i].born = 1
     /\ ripples[i].radius = 21000
     /\ \E c \in Calls(surface, {"ring"}) : c.id = ripples[i].id /\ c.r = 6000

\* C13: every ink particle is removed no later than the 50th tick after it
\* was spawned and every ripple no later than the 60th tick after its click;
\* so once moves and clicks have stopped, 60 ticks later both pools are
\* empty, and they stay empty.
C13_PoolsBoundedByDecay ==
  /\ \A i \in DOMAIN particles : frameCount - particles[i].born < 50
  /\ \A i \in DOMAIN ripples : frameCount - ripples[i].born < 60
  /\ frameCount >= (InputFrames - 1) + 50 => particles = << >>
  /\ frameCount >= (InputFrames - 1) + 60 => ripples = << >>

\* C13 witness: a particle and a ripple were created, ticks went on, and
\* both pools have run empty
C13_Witness ==
  /\ hist.inks = 1
  /\ hist.rips = 1
  /\ particles = << >>
  /\ ripples = << >>
  /\ frameCount = 61

\* s * 0.98^k for a size s in millionths of a pixel
RECURSIVE Shrunk(_, _)
Shrunk(s, k) == IF k = 0 THEN s ELSE Shrunk((s * 98) \div 100, k - 1)

\* C14: an ink particle spawned with life 1.0 and size s is, k ticks later
\* (k < 50), still in the pool with life 1.0 - 0.02*k and size s*0.98^k (to
\* the model's resolution of k thousandths of a pixel); after 10 ticks the
\* life is 0.8 and a size of 4 is about 3.27.
C14_InkArithmetic ==
  \A i \in DOMAIN particles :
     LET p == particles[i]
         k == frameCount - p.born
         exact == Shrunk(p.size0 * 1000, k)
     IN /\ k >= 0 /\ k < 50
        /\ p.life = 1000 - 20 * k
        /\ p.size * 1000 <= exact
        /\ p.size * 1000 >= exact - 1000 * (k + 1)
        /\ (k = 10 /\ p.size0 = 4000) =>
              /\ p.life = 800
              /\ p.size >= 3260 /\ p.size <= 3270

\* C14 witness: the particle spawned with size 4 has seen 10 ticks
C14_Witness ==
  \E i \in DOMAIN particles :
     /\ particles[i].size0 = 4000
     /\ frameCount - particles[i].born = 10
     /\ particles[i].life = 800
     /\ particles[i].size < 4000

Between(v, a, b) == (a <= v /\ v <= b) \/ (b <= v /\ v <= a)
Dist(a, b) == IF a >= b THEN a - b ELSE b - a

\* C15: the smoothed pointer position changes only in a tick that obtains a
\* surface, and then once, to old + (target - old) * 0.05 on each axis: it
\* lies between the old value and the target, does not land on the target
\* unless it was there, and its distance to the target does not grow.
C15_PointerSmoothing ==
  [][IF DrawnTick
     THEN /\ mouse'.targetX = mouse.targetX /\ mouse'.targetY = mouse.targetY
          /\ mouse'.x = mouse.x + Trunc((mouse.targetX - mouse.x) * 5, 100)
          /\ mouse'.y = mouse.y + Trunc((mouse.targetY - mouse.y) * 5, 100)
          /\ Between(mouse'.x, mouse.x, mouse.targetX)
          /\ Between(mouse'.y, mouse.y, mouse.targetY)
          /\ mouse.x # mouse.targetX => mouse'.x # mouse.targetX
          /\ mouse.y # mouse.targetY => mouse'.y # mouse.targetY
          /\ Dist(mouse'.x, mouse.targetX) <= Dist(mouse.x, mouse.targetX)
          /\ Dist(mouse'.y, mouse.targetY) <= Dist(mouse.y, mouse.targetY)
     ELSE mouse'.x = mouse.x /\ mouse'.y = mouse.y]_vars

\* C15 witness: the pointer went right, a frame smoothed towards it, then
\* the pointer went left and frames smoothed back across the centre
C15_Witness ==
  /\ frameCount >= 3
  /\ hist.moves = 2
  /\ mouse.targetX < 0
  /\ mouse.x < 0
  /\ mouse.x > mouse.targetX
  /\ mouse.y # mouse.targetY

\* the commands of the given kinds, in drawing order, as <<x, y>> points
Points(ops, kinds) ==
  LET sel == SelectSeq(ops, LAMBDA c : c.kind \in kinds)
  IN [k \in DOMAIN sel |-> << sel[k].x, sel[k].y >>]

\* C16: for every surface width and every layer, time and parallax, the
\* stroke path of drawMountain has the same x samples, and the same y at each
\* sample, as the top edge of the fill path: x = 0, 5, 10, ... up to the
\* largest multiple of 5 not above the width.
C16_StrokeTracesFill ==
  surface # << >> =>
    LET fill == Points(surface, {"fillLine"})
        top == SubSeq(fill, 1, Len(fill) - 1)
        stroke == Points(surface, {"strokeMove", "strokeLine"})
    IN /\ stroke = top
       /\ Len(stroke) = (canvasW \div 5) + 1
       /\ \A k \in DOMAIN stroke : stroke[k][1] = (k - 1) * 5 * Scale
       /\ Points(surface, {"strokeMove"}) = << stroke[1] >>
       /\ surface[1].kind = "fillMove"
       /\ fill[Len(fill)] = << canvasW * Scale, canvasH * Scale >>

\* C16 witness: a layer drawn on a width that is no multiple of 5, with a
\* pointer offset and a running clock, and a top edge that is not flat
C16_Witness ==
  /\ surface # << >>
  /\ canvasW = 12
  /\ mouse.x # 0
  /\ now = 5000
  /\ LET stroke == Points(surface, {"strokeMove", "strokeLine"})
     IN /\ Len(stroke) = 3
        /\ stroke[1][2] # stroke[3][2]
        /\ stroke[3][1] = 10 * Scale

\* how many draw calls of the given kinds carry the id
DrawCount(ops, kinds, id) ==
  Cardinality({ k \in DOMAIN ops : ops[k].kind \in kinds /\ ops[k].id = id })

\* the pool with every entry advanced by one decay step
Stepped(pool, Step(_)) == [k \in DOMAIN pool |-> Step(pool[k])]

\* pools of three entries of any mix of fresh and nearly spent ones, as the
\* loops would meet them if lifetimes differed
MixedRipples ==
  { [k \in 1..3 |-> [id |-> k, born |-> 0, x |-> 0, y |-> 0,
                     radius |-> 30000, maxRadius |-> 100000,
                     opacity |-> o[k], color |-> "#2B5F75"]] :
      o \in [1..3 -> {OpacityDecay, 300}] }
MixedInk ==
  { [k \in 1..3 |-> [id |-> k, born |-> 0, size0 |-> 4000, x |-> 0, y |-> 0,
                     vx |-> 0, vy |-> 0, life |-> l[k], size |-> 3000,
                     color |-> "#111"]] :
      l \in [1..3 -> {LifeDecay, 500}] }

\* C17: in every tick each ripple and each ink particle that was in its pool
\* is updated exactly once: the pool afterwards is the old pool, each entry
\* advanced by one step, without the entries whose opacity or life ran out,
\* however many are removed in that tick; each survivor is drawn once and no
\* removed entry is drawn. The same holds of the two loops on pools where
\* the removed entries are not adjacent.
C17_NoSkipOnRemoval ==
  [][DrawnTick =>
       /\ ripples' = SelectSeq(Stepped(ripples, RippleStep),
                               LAMBDA r : r.opacity > 0)
       /\ particles' = SelectSeq(Stepped(particles, InkStep),
                                 LAMBDA q : q.life > 0)
       /\ \A i \in DOMAIN ripples :
             DrawCount(surface', {"ripple"}, ripples[i].id)
               = IF ripples[i].opacity - OpacityDecay > 0 THEN 1 ELSE 0
       /\ \A i \in DOMAIN particles :
             DrawCount(surface', {"ink"}, particles[i].id)
               = IF particles[i].life - LifeDecay > 0 THEN 1 ELSE 0
       /\ \A pool \in MixedRipples :
             RippleLoop(3, pool, << >>, now).pool
               = SelectSeq(Stepped(pool, RippleStep), LAMBDA r : r.opacity > 0)
       /\ \A pool \in MixedInk :
             InkLoop(3, pool, << >>, now).pool
               = SelectSeq(Stepped(pool, InkStep), LAMBDA q : q.life > 0)]_vars

\* C17 witness: two ripples clicked in the same frame ran out in one tick,
\* the 60th after the click
C17_Witness ==
  /\ hist.rips = 2
  /\ ripples = << >>
  /\ frameCount = 60
  /\ Calls(surface, {"ripple", "ring"}) = {}

\* C18: in every state at most one frame request is pending, and a pending
\* request is the one whose handle requestRef holds.
C18_OneOutstandingRequest ==
  /\ Cardinality(pending) <= 1
  /\ pending # {} => pending = {requestRef}
  /\ pc = "running" /\ hist.calls = frameCount => pending = {requestRef}

\* C18 witness: the loop is running after several frames, each of which
\* re-armed the request
C18_Witness ==
  /\ pc = "running"
  /\ frameCount >= 3
  /\ pending = {requestRef}
  /\ requestRef = frameCount + 1

\* C19: after every tick that obtains a surface, every gold dust particle is
\* inside the closed rectangle 0..width by 0..height read in that tick,
\* wherever it was before.
C19_DustInsideViewport ==
  [][DrawnTick =>
       \A i \in DOMAIN goldDust' :
          /\ 0 <= goldDust'[i].x /\ goldDust'[i].x <= canvasW * Scale
          /\ 0 <= goldDust'[i].y /\ goldDust'[i].y <= canvasH * Scale]_vars

\* C19 witness: after a shrinking resize a tick has brought every particle
\* back inside, some from beyond the far edges, one from below the near edge
C19_Witness ==
  /\ canvasW = 400 /\ canvasH = 300
  /\ innerW = 400
  /\ frameCount >= 2
  /\ \E i \in DOMAIN goldDust : goldDust[i].x = 0
  /\ \E i \in DOMAIN goldDust : goldDust[i].y = 0
  /\ \E i \in DOMAIN goldDust : goldDust[i].x = canvasW * Scale
  /\ \A i \in DOMAIN goldDust :
        /\ goldDust[i].x \in 0..(canvasW * Scale)
        /\ goldDust[i].y \in 0..(canvasH * Scale)

\* the maxRadius values handleClick can draw
MaxRadii == { e.maxRadius : e \in ClickInputs }

\* C20: a ripple's radius never reaches its maxRadius: every drawn ripple
\* has radius at most 88.5, below the smallest maxRadius of 100, and no
\* update, removal test or draw step depends on maxRadius.
C20_RadiusBelowMax ==
  /\ \A m \in MaxRadii : m >= 100 * Scale
  /\ \A c \in Calls(surface, {"ripple"}) : c.r <= 88500
  /\ \A c \in Calls(surface, {"ring"}) : c.r <= 88500 - RingOffset
  /\ \A i \in DOMAIN ripples :
        LET r == ripples[i]
        IN /\ r.radius <= 88500
           /\ r.radius < r.maxRadius
           /\ r.radius = RadiusGrowth * (frameCount - r.born)
           /\ \A m \in MaxRadii :
                 LET q == [r EXCEPT !.maxRadius = m]
                 IN /\ RippleStep(q) = [RippleStep(r) EXCEPT !.maxRadius = m]
                    /\ RippleDead(q) = RippleDead(r)
                    /\ RippleOps(q, now) = RippleOps(r, now)

\* C20 witness: a ripple is drawn at radius 88.5 on its last tick
C20_Witness ==
  \E i \in DOMAIN ripples :
     /\ ripples[i].radius = 88500
     /\ ripples[i].maxRadius = 100000
     /\ \E c \in Calls(surface, {"ripple"}) :
           c.id = ripples[i].id /\ c.r = 88500

====
